---- MODULE Spec2Model ----
(***************************************************************************)
(* Model of lightyear's outbound packet builder                            *)
(* (src/lightyear/src/packet/packet_builder.rs).                           *)
(*                                                                         *)
(* One call of PacketBuilder::build_packets is a state machine: Init draws *)
(* the `data` argument, the actions are the steps of the function body,    *)
(* and the call ends in one of the results "Ok", "Err" or "panic".         *)
(*                                                                         *)
(* A payload is the sequence of the values written to it, each with the    *)
(* number of bytes its encoding takes; payload.len() is the sum.           *)
(***************************************************************************)
EXTENDS Integers, Sequences, FiniteSets, TLC

\* ------------------------------------------------------------------ bounds
\* number of channel ids the input map may hold
NumChannels == 2
\* most messages, single or fragmented, in the queues of all channels
MaxMessages == 3
\* number of fragments of a fragmented message (at least 2)
NumFragments == 3
\* bytes.len() of a large single message: two of them do not share a packet
BigBytes == 1168
\* bytes.len() of a short last fragment
ShortFragment == 20

\* ------------------------------------------------- constants of the crate
\* bytes.len() of the small message of tests::test_pack_small_messages
SmallBytes == 10
\* the tick the call is made with
current_tick == 0
\* maximum payload size of a packet (crate::packet::packet)
MTU_PAYLOAD_BYTES == 1200
\* maximum bytes.len() of a fragment (crate::packet::packet)
FRAGMENT_SIZE == 1180
\* encoded length of a packet header (crate::packet::header)
HEADER_BYTES == 11

\* ---------------------------------------------------------------- Option
None == <<>>
Some(x) == <<x>>
is_some(o) == o # None
is_none(o) == o = None
unwrap(o) == o[1]

\* ------------------------------------------------------- encoded lengths
\* crate::serialize::varint::varint_len
varint_len(v) ==
    IF v < 64 THEN 1 ELSE IF v < 16384 THEN 2 ELSE IF v < 1073741824 THEN 4 ELSE 8

\* SingleData::len(): the id option, then the length-prefixed bytes
SingleLen(m) ==
    (IF is_some(m.id) THEN 3 ELSE 1) + varint_len(m.bytes_len) + m.bytes_len

\* encoded length of a FragmentData: message id, fragment id, fragment count,
\* then the length-prefixed bytes
FragmentLen(f) == 4 + varint_len(f.bytes_len) + f.bytes_len

\* FragmentData::is_last_fragment
is_last_fragment(f) == f.fragment_id = f.num_fragments - 1

ItemLen(it) ==
    CASE it.tag = "header" -> HEADER_BYTES
      [] it.tag = "channel_id" -> varint_len(it.channel_id)
      [] it.tag = "num_messages" -> 1
      [] it.tag = "single" -> SingleLen(it.message)
      [] it.tag = "fragment" -> FragmentLen(it.fragment)

RECURSIVE PayloadLen(_)
\* payload.len()
PayloadLen(payload) ==
    IF payload = <<>> THEN 0
    ELSE ItemLen(Head(payload)) + PayloadLen(Tail(payload))

\* ------------------------------------------------------------ the inputs
ChannelIds == {64 * (i - 1) : i \in 1..NumChannels}

SingleSizes == {SmallBytes, SmallBytes + 1, BigBytes}

SingleShapes == [has_id : BOOLEAN, bytes_len : SingleSizes]

\* a queue of SingleData; `bytes` stands for the content and is the enqueue
\* position, the id (when present) is the MessageId the sender assigned
MkSingles(q) ==
    [i \in 1..Len(q) |->
        [id |-> IF q[i].has_id THEN Some(i - 1) ELSE None,
         bytes |-> i,
         bytes_len |-> q[i].bytes_len]]

\* the single queues of n messages
SingleQueuesOf(n) == {MkSingles(q) : q \in [1..n -> SingleShapes]}

\* the fragments of one fragmented message, as the fragment sender builds them
MkFragments(message_id, num_fragments, last_len) ==
    [i \in 1..num_fragments |->
        [message_id |-> message_id,
         fragment_id |-> i - 1,
         num_fragments |-> num_fragments,
         bytes_len |-> IF i = num_fragments THEN last_len ELSE FRAGMENT_SIZE]]

RECURSIVE FragmentQueuesOf(_)
\* the fragment queues that hold k fragmented messages
FragmentQueuesOf(k) ==
    IF k = 0 THEN {<<>>}
    ELSE {q \o MkFragments(MaxMessages + k - 1, NumFragments, l) :
            q \in FragmentQueuesOf(k - 1),
            l \in {ShortFragment, FRAGMENT_SIZE}}

\* the queues of one channel that hold n messages:
\* (VecDeque<SingleData>, VecDeque<FragmentData>)
ChannelQueuesOf(n) ==
    UNION {SingleQueuesOf(k) \X FragmentQueuesOf(n - k) : k \in 0..n}

RECURSIVE InputsOf(_, _)
\* BTreeMap<ChannelId, (VecDeque<SingleData>, VecDeque<FragmentData>)>:
\* the maps that have the channels C for keys and hold n messages
InputsOf(C, n) ==
    IF C = {} THEN (IF n = 0 THEN {<<>>} ELSE {})
    ELSE LET c == CHOOSE x \in C : TRUE
         IN UNION {{(c :> q) @@ rest :
                        q \in ChannelQueuesOf(k),
                        rest \in InputsOf(C \ {c}, n - k)} :
                   k \in 0..n}

\* ------------------------------------------------------------- the state
VARIABLES
    data,               \* the argument of build_packets
    todo,               \* keys of data the for loop has not yet taken
    channel_id,         \* key of the current iteration
    single_messages,    \* the current channel's single queue, sorted
    fragment_messages,  \* fragments the 'frag loop has not yet taken
    message_start_idx,
    message_end_idx,
    current_packet,     \* self.current_packet : Option<Packet>
    packet,             \* the local `packet` : Option<Packet> (None: not bound)
    packets,            \* the local `packets` : Vec<Packet>
    fragment_data,      \* the fragment the 'frag loop holds : Option<FragmentData>
    next_packet_id,     \* header_manager: the id of the next header
    pc,                 \* position in the body of build_packets
    result              \* "running", "Ok", "Err" or "panic"

vars == <<data, todo, channel_id, single_messages, fragment_messages,
          message_start_idx, message_end_idx, current_packet, packet,
          packets, fragment_data, next_packet_id, pc, result>>

\* ------------------------------------------------------------ the packet
\* Packet::can_fit
can_fit(p, size) ==
    PayloadLen(p.payload) + size + p.prewritten_size <= MTU_PAYLOAD_BYTES

\* Packet::can_fit_channel, the value it returns
can_fit_channel(p, c) == can_fit(p, varint_len(c) + 1)

\* Packet::can_fit_channel, the packet it leaves: the channel id and the
\* count byte are reserved when they fit
reserve_channel(p, c) ==
    IF can_fit_channel(p, c)
    THEN [p EXCEPT !.prewritten_size = @ + varint_len(c) + 1]
    ELSE p

\* reserve_message reserving the payload bytes only, without the prefix
reserve_message_payload_only(p, m) ==
    [p EXCEPT !.prewritten_size = @ + m.bytes_len]

\* packet.prewritten_size += single_messages[message_end_idx].len()
reserve_message(p, m) == [p EXCEPT !.prewritten_size = @ + SingleLen(m)]

\* PacketHeaderManager::prepare_send_packet_header with header.tick set
Header(packet_type, id) ==
    [tag |-> "header", packet_type |-> packet_type, packet_id |-> id,
     tick |-> current_tick]

\* the packet build_new_single_packet stores in self.current_packet
new_single_packet(id) ==
    [payload |-> <<Header("Data", id)>>,
     message_acks |-> <<>>,
     packet_id |-> id,
     prewritten_size |-> 0]

\* the packet build_new_fragment_packet stores in self.current_packet
new_fragment_packet(id, c, f) ==
    [payload |-> <<Header("DataFragment", id),
                   [tag |-> "channel_id", channel_id |-> c],
                   [tag |-> "fragment", fragment |-> f]>>,
     message_acks |-> <<[channel_id |-> c,
                         message_id |-> f.message_id,
                         fragment_id |-> Some(f.fragment_id)]>>,
     packet_id |-> id,
     prewritten_size |-> 0]

\* single_acks with the id test left out: a record for every message
single_acks_always(c, m) ==
    <<[channel_id |-> c,
       message_id |-> IF is_some(m.id) THEN unwrap(m.id) ELSE 0,
       fragment_id |-> None]>>

\* the MessageAck write_single_messages pushes for message m, if any
single_acks(c, m) ==
    IF is_some(m.id)
    THEN <<[channel_id |-> c, message_id |-> unwrap(m.id), fragment_id |-> None]>>
    ELSE <<>>

\* the sums and lists below are taken over halves of the range, which keeps
\* their evaluation shallow for long queues
RECURSIVE sum_len(_, _, _)
\* messages[lo].len() + ... + messages[hi].len() (1-based places)
sum_len(messages, lo, hi) ==
    IF lo > hi THEN 0
    ELSE IF lo = hi THEN SingleLen(messages[lo])
    ELSE LET mid == (lo + hi) \div 2
         IN sum_len(messages, lo, mid) + sum_len(messages, mid + 1, hi)

RECURSIVE acks_of(_, _, _, _)
\* the MessageAcks pushed for messages[lo..hi], in this order
acks_of(messages, lo, hi, c) ==
    IF lo > hi THEN <<>>
    ELSE IF lo = hi THEN single_acks(c, messages[lo])
    ELSE LET mid == (lo + hi) \div 2
         IN acks_of(messages, lo, mid, c) \o acks_of(messages, mid + 1, hi, c)

\* the `for i in *start..*end` loop of write_single_messages (i is 0-based):
\* message k is written, then its length is subtracted, which fails at the
\* first k whose length the counter no longer covers; the ack follows
write_messages(p, messages, i, end, c) ==
    IF i >= end THEN [ok |-> TRUE, packet |-> p]
    ELSE LET failing == {k \in (i + 1)..end :
                            p.prewritten_size < sum_len(messages, i + 1, k)}
             \* the last place written and the last place subtracted
             last == IF failing = {} THEN end
                     ELSE CHOOSE k \in failing : \A x \in failing : k <= x
             done == IF failing = {} THEN end ELSE last - 1
             singles == [j \in 1..(last - i) |->
                            [tag |-> "single", message |-> messages[i + j]]]
         IN [ok |-> failing = {},
             packet |-> [p EXCEPT
                 !.payload = @ \o singles,
                 !.prewritten_size = @ - sum_len(messages, i + 1, done),
                 !.message_acks = @ \o acks_of(messages, i + 1, done, c)]]

\* PacketBuilder::write_single_messages: ok is FALSE for
\* Err(SubstractionOverflow); start is the value left in *start
write_single_messages(p, messages, start, end, c) ==
    LET with_channel == [p EXCEPT !.payload =
                            Append(@, [tag |-> "channel_id", channel_id |-> c])]
        num_messages == end - start
    IN IF with_channel.prewritten_size < varint_len(c) + 1
       THEN [ok |-> FALSE, packet |-> with_channel, start |-> start]
       ELSE LET sub == [with_channel EXCEPT
                            !.prewritten_size = @ - (varint_len(c) + 1)]
            IN IF num_messages > 0
               THEN LET counted == [sub EXCEPT !.payload =
                                Append(@, [tag |-> "num_messages",
                                           num_messages |-> num_messages % 256])]
                        w == write_messages(counted, messages, start, end, c)
                    IN [ok |-> w.ok, packet |-> w.packet,
                        start |-> IF w.ok THEN end ELSE start]
               ELSE [ok |-> TRUE, packet |-> sub, start |-> start]

\* sorts_before with equal keys in reverse order (an unstable sort)
sorts_before_unstable(q, j, i) ==
    \/ q[j].bytes_len < q[i].bytes_len
    \/ q[j].bytes_len = q[i].bytes_len /\ j > i

\* sort_by_key places q[j] before q[i]: its key is smaller, or equal and it
\* stood earlier (the sort is stable)
sorts_before(q, j, i) ==
    \/ q[j].bytes_len < q[i].bytes_len
    \/ q[j].bytes_len = q[i].bytes_len /\ j < i

\* single_messages.make_contiguous().sort_by_key(|message| message.bytes.len())
sort_by_len(q) ==
    LET place == [i \in 1..Len(q) |->
                    Cardinality({j \in 1..Len(q) : sorts_before(q, j, i)}) + 1]
    IN [r \in 1..Len(q) |-> q[CHOOSE i \in 1..Len(q) : place[i] = r]]

\* ------------------------------------------------------------------ Init
Init ==
    /\ \E C \in SUBSET ChannelIds, n \in 0..MaxMessages : data \in InputsOf(C, n)
    /\ todo = DOMAIN data
    /\ channel_id = 0
    /\ single_messages = <<>>
    /\ fragment_messages = <<>>
    /\ message_start_idx = 0
    /\ message_end_idx = 0
    /\ current_packet = None
    /\ packet = None
    /\ packets = <<>>
    /\ fragment_data = None
    /\ next_packet_id = 0
    /\ pc = "for"
    /\ result = "running"

\* ------------------------------------------------------------ the steps
\* PacketBuilder::finish_packet called with `slot` in self.current_packet and
\* its value pushed to packets: unwrap() of an empty slot aborts the call
push_finish_packet(slot, next_pc) ==
    IF is_none(slot)
    THEN /\ pc' = "end"
         /\ result' = "panic"
         /\ current_packet' = slot
         /\ UNCHANGED packets
    ELSE /\ packets' = Append(packets, unwrap(slot))
         /\ current_packet' = None
         /\ pc' = next_pc
         /\ UNCHANGED result

\* the `?` on a call of write_single_messages that returned Err
return_err ==
    /\ pc' = "end"
    /\ result' = "Err"

\* the for loop over a map that yields its largest key first
ForNextDescending ==
    /\ pc = "for"
    /\ todo # {}
    /\ LET c == CHOOSE x \in todo : \A y \in todo : y <= x
       IN /\ channel_id' = c
          /\ todo' = todo \ {c}
          /\ single_messages' = sort_by_len(data[c][1])
          /\ fragment_messages' = data[c][2]
    /\ message_start_idx' = 0
    /\ message_end_idx' = 0
    /\ pc' = "drain"
    /\ UNCHANGED <<data, current_packet, packet, packets, fragment_data,
                   next_packet_id, result>>

\* 'outer: the for loop takes the next channel and sorts its single queue
ForNext ==
    /\ pc = "for"
    /\ todo # {}
    /\ LET c == CHOOSE x \in todo : \A y \in todo : x <= y
       IN /\ channel_id' = c
          /\ todo' = todo \ {c}
          /\ single_messages' = sort_by_len(data[c][1])
          /\ fragment_messages' = data[c][2]
    /\ message_start_idx' = 0
    /\ message_end_idx' = 0
    /\ pc' = "drain"
    /\ UNCHANGED <<data, current_packet, packet, packets, fragment_data,
                   next_packet_id, result>>

\* ForEnd pushing a copy of the open packet and leaving it in the builder
ForEndKeepingSlot ==
    /\ pc = "for"
    /\ todo = {}
    /\ IF is_some(current_packet)
       THEN packets' = Append(packets, unwrap(current_packet))
       ELSE UNCHANGED packets
    /\ pc' = "end"
    /\ result' = "Ok"
    /\ UNCHANGED <<data, todo, channel_id, single_messages, fragment_messages,
                   message_start_idx, message_end_idx, current_packet, packet,
                   fragment_data, next_packet_id>>

\* after the for loop: push the packet still open, return Ok(packets)
ForEnd ==
    /\ pc = "for"
    /\ todo = {}
    /\ IF is_some(current_packet)
       THEN /\ packets' = Append(packets, unwrap(current_packet))
            /\ current_packet' = None
       ELSE UNCHANGED <<current_packet, packets>>
    /\ pc' = "end"
    /\ result' = "Ok"
    /\ UNCHANGED <<data, todo, channel_id, single_messages, fragment_messages,
                   message_start_idx, message_end_idx, packet, fragment_data,
                   next_packet_id>>

\* ---- the packet carried over from the previous channel (lines 171-216)
\* no packet is open: on to the fragments
DrainNone ==
    /\ pc = "drain"
    /\ is_none(current_packet)
    /\ pc' = "frag"
    /\ UNCHANGED <<data, todo, channel_id, single_messages, fragment_messages,
                   message_start_idx, message_end_idx, current_packet, packet,
                   packets, fragment_data, next_packet_id, result>>

\* the open packet is taken out of the builder and cannot take the channel:
\* packets.push(self.finish_packet())
DrainChannelFull ==
    /\ pc = "drain"
    /\ is_some(current_packet)
    /\ ~can_fit_channel(unwrap(current_packet), channel_id)
    /\ packet' = current_packet
    /\ push_finish_packet(None, "frag")
    /\ UNCHANGED <<data, todo, channel_id, single_messages, fragment_messages,
                   message_start_idx, message_end_idx, fragment_data,
                   next_packet_id>>

\* the open packet is taken out of the builder and can take the channel
DrainChannelFits ==
    /\ pc = "drain"
    /\ is_some(current_packet)
    /\ can_fit_channel(unwrap(current_packet), channel_id)
    /\ packet' = Some(reserve_channel(unwrap(current_packet), channel_id))
    /\ current_packet' = None
    /\ pc' = "drain_loop"
    /\ UNCHANGED <<data, todo, channel_id, single_messages, fragment_messages,
                   message_start_idx, message_end_idx, packets, fragment_data,
                   next_packet_id, result>>

\* DrainExhausted without its `continue 'outer`: the packet stays in the
\* builder and the call goes on to the channel's fragments
DrainExhaustedFallThrough ==
    /\ pc = "drain_loop"
    /\ message_end_idx = Len(single_messages)
    /\ LET w == write_single_messages(unwrap(packet), single_messages,
                    message_start_idx, message_end_idx, channel_id)
       IN /\ w.ok
          /\ current_packet' = Some(w.packet)
          /\ packet' = None
          /\ message_start_idx' = w.start
          /\ pc' = "frag"
    /\ UNCHANGED <<data, todo, channel_id, single_messages, fragment_messages,
                   message_end_idx, packets, fragment_data, next_packet_id,
                   result>>

\* every message of the channel is reserved: write them, keep the packet
\* open and continue 'outer
DrainExhausted ==
    /\ pc = "drain_loop"
    /\ message_end_idx = Len(single_messages)
    /\ LET w == write_single_messages(unwrap(packet), single_messages,
                    message_start_idx, message_end_idx, channel_id)
       IN IF w.ok
          THEN /\ current_packet' = Some(w.packet)
               /\ packet' = None
               /\ message_start_idx' = w.start
               /\ pc' = "for"
               /\ UNCHANGED result
          ELSE /\ return_err
               /\ packet' = Some(w.packet)
               /\ UNCHANGED <<current_packet, message_start_idx>>
    /\ UNCHANGED <<data, todo, channel_id, single_messages, fragment_messages,
                   message_end_idx, packets, fragment_data, next_packet_id>>

\* DrainReserve with the can_fit test left out
DrainReserveUnchecked ==
    /\ pc = "drain_loop"
    /\ message_end_idx # Len(single_messages)
    /\ packet' = Some(reserve_message(unwrap(packet),
                                      single_messages[message_end_idx + 1]))
    /\ message_end_idx' = message_end_idx + 1
    /\ UNCHANGED <<data, todo, channel_id, single_messages, fragment_messages,
                   message_start_idx, current_packet, packets, fragment_data,
                   next_packet_id, pc, result>>

\* the next message fits: reserve it
DrainReserve ==
    /\ pc = "drain_loop"
    /\ message_end_idx # Len(single_messages)
    /\ can_fit(unwrap(packet), SingleLen(single_messages[message_end_idx + 1]))
    /\ packet' = Some(reserve_message(unwrap(packet),
                                      single_messages[message_end_idx + 1]))
    /\ message_end_idx' = message_end_idx + 1
    /\ UNCHANGED <<data, todo, channel_id, single_messages, fragment_messages,
                   message_start_idx, current_packet, packets, fragment_data,
                   next_packet_id, pc, result>>

\* the next message does not fit: write the reserved ones,
\* packets.push(self.finish_packet()) and break
DrainFull ==
    /\ pc = "drain_loop"
    /\ message_end_idx # Len(single_messages)
    /\ ~can_fit(unwrap(packet), SingleLen(single_messages[message_end_idx + 1]))
    /\ LET w == write_single_messages(unwrap(packet), single_messages,
                    message_start_idx, message_end_idx, channel_id)
       IN /\ packet' = Some(w.packet)
          /\ IF w.ok
             THEN /\ message_start_idx' = w.start
                  /\ push_finish_packet(current_packet, "frag")
             ELSE /\ return_err
                  /\ UNCHANGED <<current_packet, packets, message_start_idx>>
    /\ UNCHANGED <<data, todo, channel_id, single_messages, fragment_messages,
                   message_end_idx, fragment_data, next_packet_id>>

\* ---- the fragments of the channel (lines 219-262)
\* the 'frag loop is over
FragEnd ==
    /\ pc = "frag"
    /\ fragment_messages = <<>>
    /\ fragment_data' = None
    /\ pc' = "singles"
    /\ UNCHANGED <<data, todo, channel_id, single_messages, fragment_messages,
                   message_start_idx, message_end_idx, current_packet, packet,
                   packets, next_packet_id, result>>

\* the 'frag loop takes the next fragment: build_new_fragment_packet
FragBuild ==
    /\ pc = "frag"
    /\ fragment_messages # <<>>
    /\ fragment_data' = Some(Head(fragment_messages))
    /\ fragment_messages' = Tail(fragment_messages)
    /\ current_packet' = Some(new_fragment_packet(next_packet_id, channel_id,
                                                  Head(fragment_messages)))
    /\ next_packet_id' = next_packet_id + 1
    /\ pc' = "frag_built"
    /\ UNCHANGED <<data, todo, channel_id, single_messages, message_start_idx,
                   message_end_idx, packet, packets, result>>

\* not the last fragment: packets.push(self.finish_packet())
FragNotLast ==
    /\ pc = "frag_built"
    /\ ~is_last_fragment(unwrap(fragment_data))
    /\ push_finish_packet(current_packet, "frag")
    /\ UNCHANGED <<data, todo, channel_id, single_messages, fragment_messages,
                   message_start_idx, message_end_idx, packet, fragment_data,
                   next_packet_id>>

\* the last fragment: its packet is taken out of the builder and cannot take
\* the channel's single messages: packets.push(self.finish_packet())
FragLastChannelFull ==
    /\ pc = "frag_built"
    /\ is_last_fragment(unwrap(fragment_data))
    /\ ~can_fit_channel(unwrap(current_packet), channel_id)
    /\ packet' = current_packet
    /\ push_finish_packet(None, "frag")
    /\ UNCHANGED <<data, todo, channel_id, single_messages, fragment_messages,
                   message_start_idx, message_end_idx, fragment_data,
                   next_packet_id>>

\* FragLastChannelFits with the is_last_fragment test left out
FragAnyChannelFits ==
    /\ pc = "frag_built"
    /\ can_fit_channel(unwrap(current_packet), channel_id)
    /\ packet' = Some(reserve_channel(unwrap(current_packet), channel_id))
    /\ current_packet' = None
    /\ pc' = "frag_loop"
    /\ UNCHANGED <<data, todo, channel_id, single_messages, fragment_messages,
                   message_start_idx, message_end_idx, packets, fragment_data,
                   next_packet_id, result>>

\* the last fragment: its packet is taken out of the builder and can take the
\* channel's single messages
FragLastChannelFits ==
    /\ pc = "frag_built"
    /\ is_last_fragment(unwrap(fragment_data))
    /\ can_fit_channel(unwrap(current_packet), channel_id)
    /\ packet' = Some(reserve_channel(unwrap(current_packet), channel_id))
    /\ current_packet' = None
    /\ pc' = "frag_loop"
    /\ UNCHANGED <<data, todo, channel_id, single_messages, fragment_messages,
                   message_start_idx, message_end_idx, packets, fragment_data,
                   next_packet_id, result>>

\* every message of the channel is reserved: continue 'outer; the local
\* packet, the fragment and the rest of the fragment queue go out of scope
FragLoopExhausted ==
    /\ pc = "frag_loop"
    /\ message_end_idx = Len(single_messages)
    /\ packet' = None
    /\ fragment_data' = None
    /\ fragment_messages' = <<>>
    /\ pc' = "for"
    /\ UNCHANGED <<data, todo, channel_id, single_messages, message_start_idx,
                   message_end_idx, current_packet, packets, next_packet_id,
                   result>>

\* the next message fits: reserve it
FragLoopReserve ==
    /\ pc = "frag_loop"
    /\ message_end_idx # Len(single_messages)
    /\ can_fit(unwrap(packet), SingleLen(single_messages[message_end_idx + 1]))
    /\ packet' = Some(reserve_message(unwrap(packet),
                                      single_messages[message_end_idx + 1]))
    /\ message_end_idx' = message_end_idx + 1
    /\ UNCHANGED <<data, todo, channel_id, single_messages, fragment_messages,
                   message_start_idx, current_packet, packets, fragment_data,
                   next_packet_id, pc, result>>

\* the next message does not fit: write the reserved ones,
\* packets.push(self.finish_packet()) and continue 'frag
FragLoopFull ==
    /\ pc = "frag_loop"
    /\ message_end_idx # Len(single_messages)
    /\ ~can_fit(unwrap(packet), SingleLen(single_messages[message_end_idx + 1]))
    /\ LET w == write_single_messages(unwrap(packet), single_messages,
                    message_start_idx, message_end_idx, channel_id)
       IN /\ packet' = Some(w.packet)
          /\ IF w.ok
             THEN /\ message_start_idx' = w.start
                  /\ push_finish_packet(current_packet, "frag")
             ELSE /\ return_err
                  /\ UNCHANGED <<current_packet, packets, message_start_idx>>
    /\ UNCHANGED <<data, todo, channel_id, single_messages, fragment_messages,
                   message_end_idx, fragment_data, next_packet_id>>

\* ---- the remaining single messages (lines 265-322)
\* make sure a packet is open that can take the channel, take it out of the
\* builder and reserve the channel id and the count byte
SinglesOpen ==
    /\ pc = "singles"
    /\ LET fits == /\ is_some(current_packet)
                   /\ can_fit_channel(unwrap(current_packet), channel_id)
           \* self.current_packet after the condition of line 267
           checked == IF fits
                      THEN Some(reserve_channel(unwrap(current_packet), channel_id))
                      ELSE current_packet
           \* self.current_packet after line 274
           slot == IF fits THEN checked
                   ELSE Some(new_single_packet(next_packet_id))
       IN /\ next_packet_id' = IF fits THEN next_packet_id
                               ELSE next_packet_id + 1
          /\ current_packet' = None
          /\ IF can_fit_channel(unwrap(slot), channel_id)
             THEN /\ packet' = Some(reserve_channel(unwrap(slot), channel_id))
                  /\ pc' = "singles_loop"
                  /\ UNCHANGED result
             ELSE \* unreachable!()
                  /\ packet' = slot
                  /\ pc' = "end"
                  /\ result' = "panic"
    /\ UNCHANGED <<data, todo, channel_id, single_messages, fragment_messages,
                   message_start_idx, message_end_idx, packets, fragment_data>>

\* SinglesExhausted closing the packet instead of keeping it open
SinglesExhaustedClosing ==
    /\ pc = "singles_loop"
    /\ message_end_idx = Len(single_messages)
    /\ LET w == write_single_messages(unwrap(packet), single_messages,
                    message_start_idx, message_end_idx, channel_id)
       IN /\ w.ok
          /\ packets' = Append(packets, w.packet)
          /\ packet' = None
          /\ message_start_idx' = w.start
          /\ pc' = "for"
    /\ UNCHANGED <<data, todo, channel_id, single_messages, fragment_messages,
                   message_end_idx, current_packet, fragment_data,
                   next_packet_id, result>>

\* SinglesExhausted putting the packet back without writing what it reserved
SinglesExhaustedUnwritten ==
    /\ pc = "singles_loop"
    /\ message_end_idx = Len(single_messages)
    /\ current_packet' = packet
    /\ packet' = None
    /\ pc' = "for"
    /\ UNCHANGED <<data, todo, channel_id, single_messages, fragment_messages,
                   message_start_idx, message_end_idx, packets, fragment_data,
                   next_packet_id, result>>

\* SinglesExhausted without its `continue 'outer`: the packet goes back into
\* the builder and the loop runs again
SinglesExhaustedLooping ==
    /\ pc = "singles_loop"
    /\ message_end_idx = Len(single_messages)
    /\ LET w == write_single_messages(unwrap(packet), single_messages,
                    message_start_idx, message_end_idx, channel_id)
       IN /\ w.ok
          /\ current_packet' = Some(w.packet)
          /\ packet' = None
          /\ message_start_idx' = w.start
          /\ pc' = "singles"
    /\ UNCHANGED <<data, todo, channel_id, single_messages, fragment_messages,
                   message_end_idx, packets, fragment_data, next_packet_id,
                   result>>

\* every message of the channel is reserved: write them, keep the packet
\* open for the next channel and continue 'outer
SinglesExhausted ==
    /\ pc = "singles_loop"
    /\ message_end_idx = Len(single_messages)
    /\ LET w == write_single_messages(unwrap(packet), single_messages,
                    message_start_idx, message_end_idx, channel_id)
       IN IF w.ok
          THEN /\ current_packet' = Some(w.packet)
               /\ packet' = None
               /\ message_start_idx' = w.start
               /\ pc' = "for"
               /\ UNCHANGED result
          ELSE /\ return_err
               /\ packet' = Some(w.packet)
               /\ UNCHANGED <<current_packet, message_start_idx>>
    /\ UNCHANGED <<data, todo, channel_id, single_messages, fragment_messages,
                   message_end_idx, packets, fragment_data, next_packet_id>>

\* SinglesReserve with the can_fit test left out
SinglesReserveUnchecked ==
    /\ pc = "singles_loop"
    /\ message_end_idx # Len(single_messages)
    /\ packet' = Some(reserve_message(unwrap(packet),
                                      single_messages[message_end_idx + 1]))
    /\ message_end_idx' = message_end_idx + 1
    /\ UNCHANGED <<data, todo, channel_id, single_messages, fragment_messages,
                   message_start_idx, current_packet, packets, fragment_data,
                   next_packet_id, pc, result>>

\* the next message fits: reserve it
SinglesReserve ==
    /\ pc = "singles_loop"
    /\ message_end_idx # Len(single_messages)
    /\ can_fit(unwrap(packet), SingleLen(single_messages[message_end_idx + 1]))
    /\ packet' = Some(reserve_message(unwrap(packet),
                                      single_messages[message_end_idx + 1]))
    /\ message_end_idx' = message_end_idx + 1
    /\ UNCHANGED <<data, todo, channel_id, single_messages, fragment_messages,
                   message_start_idx, current_packet, packets, fragment_data,
                   next_packet_id, pc, result>>

\* the next message does not fit: write the reserved ones,
\* packets.push(self.finish_packet()) and break to open a fresh packet
SinglesFull ==
    /\ pc = "singles_loop"
    /\ message_end_idx # Len(single_messages)
    /\ ~can_fit(unwrap(packet), SingleLen(single_messages[message_end_idx + 1]))
    /\ LET w == write_single_messages(unwrap(packet), single_messages,
                    message_start_idx, message_end_idx, channel_id)
       IN /\ packet' = Some(w.packet)
          /\ IF w.ok
             THEN /\ message_start_idx' = w.start
                  /\ push_finish_packet(current_packet, "singles")
             ELSE /\ return_err
                  /\ UNCHANGED <<current_packet, packets, message_start_idx>>
    /\ UNCHANGED <<data, todo, channel_id, single_messages, fragment_messages,
                   message_end_idx, fragment_data, next_packet_id>>

Next ==
    \/ ForNext
    \/ ForEnd
    \/ DrainNone
    \/ DrainChannelFull
    \/ DrainChannelFits
    \/ DrainExhausted
    \/ DrainReserve
    \/ DrainFull
    \/ FragEnd
    \/ FragBuild
    \/ FragNotLast
    \/ FragLastChannelFull
    \/ FragLastChannelFits
    \/ FragLoopExhausted
    \/ FragLoopReserve
    \/ FragLoopFull
    \/ SinglesOpen
    \/ SinglesExhausted
    \/ SinglesReserve
    \/ SinglesFull

Spec == Init /\ [][Next]_vars

\* ---- serialization faults: a to_bytes call that returns Err
\* header.to_bytes fails in build_new_single_packet (line 77); the `?` of
\* line 273 returns the error
SinglePacketFault ==
    /\ pc = "singles"
    /\ ~(/\ is_some(current_packet)
         /\ can_fit_channel(unwrap(current_packet), channel_id))
    /\ next_packet_id' = next_packet_id + 1
    /\ return_err
    /\ UNCHANGED <<data, todo, channel_id, single_messages, fragment_messages,
                   message_start_idx, message_end_idx, current_packet, packet,
                   packets, fragment_data>>

\* a to_bytes call fails in build_new_fragment_packet (lines 100-102); the
\* `?` of line 221 returns the error
FragmentPacketFault ==
    /\ pc = "frag"
    /\ fragment_messages # <<>>
    /\ fragment_data' = Some(Head(fragment_messages))
    /\ fragment_messages' = Tail(fragment_messages)
    /\ next_packet_id' = next_packet_id + 1
    /\ return_err
    /\ UNCHANGED <<data, todo, channel_id, single_messages, message_start_idx,
                   message_end_idx, current_packet, packet, packets>>

\* the loop is at a call of write_single_messages: every message is reserved
\* or the next one does not fit (the 'frag loop writes only in the second case)
AtWrite ==
    /\ pc \in {"drain_loop", "frag_loop", "singles_loop"}
    /\ IF message_end_idx = Len(single_messages)
       THEN pc # "frag_loop"
       ELSE ~can_fit(unwrap(packet),
                     SingleLen(single_messages[message_end_idx + 1]))

\* channel_id.to_bytes fails in write_single_messages (line 340); the `?` of
\* the call returns the error
ChannelIdFault ==
    /\ AtWrite
    /\ return_err
    /\ UNCHANGED <<data, todo, channel_id, single_messages, fragment_messages,
                   message_start_idx, message_end_idx, current_packet, packet,
                   packets, fragment_data, next_packet_id>>

\* messages[i].to_bytes fails in write_single_messages: the unwrap() of
\* line 351 aborts the call
MessageFault ==
    /\ AtWrite
    /\ message_end_idx > message_start_idx
    /\ unwrap(packet).prewritten_size >= varint_len(channel_id) + 1
    /\ packet' = Some([unwrap(packet) EXCEPT
            !.payload = @ \o <<[tag |-> "channel_id", channel_id |-> channel_id],
                               [tag |-> "num_messages",
                                num_messages |->
                                  (message_end_idx - message_start_idx) % 256]>>,
            !.prewritten_size = @ - (varint_len(channel_id) + 1)])
    /\ pc' = "end"
    /\ result' = "panic"
    /\ UNCHANGED <<data, todo, channel_id, single_messages, fragment_messages,
                   message_start_idx, message_end_idx, current_packet,
                   packets, fragment_data, next_packet_id>>

NextFault ==
    \/ Next
    \/ SinglePacketFault
    \/ FragmentPacketFault
    \/ ChannelIdFault
    \/ MessageFault

\* build_packets with encoders that may fail
SpecFault == Init /\ [][NextFault]_vars

\* ---- long queues of short messages
\* length of a queue that no longer fits the count byte
ManyMessages == 256
\* bytes.len() of a short message: ManyMessages of them share a packet
TinyBytes == 1

\* a queue of n short single messages without id
TinyQueue(n) ==
    [i \in 1..n |-> [id |-> None, bytes |-> i, bytes_len |-> TinyBytes]]

\* build_packets called with one channel that holds a long queue of short
\* messages
InitMany ==
    /\ \E n \in {ManyMessages - 1, ManyMessages} :
        data = (0 :> <<TinyQueue(n), <<>>>>)
    /\ todo = DOMAIN data
    /\ channel_id = 0
    /\ single_messages = <<>>
    /\ fragment_messages = <<>>
    /\ message_start_idx = 0
    /\ message_end_idx = 0
    /\ current_packet = None
    /\ packet = None
    /\ packets = <<>>
    /\ fragment_data = None
    /\ next_packet_id = 0
    /\ pc = "for"
    /\ result = "running"

\* build_packets over the inputs of Init and the long queues
SpecMany == (Init \/ InitMany) /\ [][Next]_vars

\* ============================================================ properties
\* ---- reading the output
Max(S) == CHOOSE x \in S : \A y \in S : y <= x

\* the channel whose id was written last before item i of a payload
ChannelAt(payload, i) ==
    payload[Max({j \in 1..i : payload[j].tag = "channel_id"})].channel_id

\* the places of single message m of channel c in a payload
SinglePlaces(payload, c, m) ==
    {i \in 1..Len(payload) :
        /\ payload[i].tag = "single"
        /\ payload[i].message = m
        /\ ChannelAt(payload, i) = c}

\* the places of fragment f of channel c in a payload
FragmentPlaces(payload, c, f) ==
    {i \in 1..Len(payload) :
        /\ payload[i].tag = "fragment"
        /\ payload[i].fragment = f
        /\ ChannelAt(payload, i) = c}

\* the packets of the output that hold single message m of channel c
PacketsWithSingle(c, m) ==
    {k \in 1..Len(packets) : SinglePlaces(packets[k].payload, c, m) # {}}

\* the packets of the output that hold fragment f of channel c
PacketsWithFragment(c, f) ==
    {k \in 1..Len(packets) : FragmentPlaces(packets[k].payload, c, f) # {}}

\* the messages written for channel c in a payload, in payload order
RECURSIVE BlockMessages(_, _, _)
BlockMessages(payload, c, i) ==
    IF i > Len(payload) THEN <<>>
    ELSE (IF payload[i].tag = "single" /\ ChannelAt(payload, i) = c
          THEN <<payload[i].message>> ELSE <<>>)
         \o BlockMessages(payload, c, i + 1)

Range(q) == {q[i] : i \in 1..Len(q)}

RECURSIVE SumSingleLen(_)
SumSingleLen(q) ==
    IF q = <<>> THEN 0 ELSE SingleLen(Head(q)) + SumSingleLen(Tail(q))

RECURSIVE SumBlocks(_)
\* bytes of the channel blocks of the channels S: id, count byte and messages
SumBlocks(S) ==
    IF S = {} THEN 0
    ELSE LET c == CHOOSE x \in S : TRUE
         IN varint_len(c) + 1 + SumSingleLen(data[c][1]) + SumBlocks(S \ {c})

\* the packets the builder still holds: its slot and the local variable
OpenPackets ==
    (IF is_some(current_packet) THEN {unwrap(current_packet)} ELSE {})
    \cup (IF is_some(packet) THEN {unwrap(packet)} ELSE {})

\* the acknowledgment records of the output, as <<packet, position>> pairs
AckPlaces ==
    UNION {{<<k, a>> : a \in 1..Len(packets[k].message_acks)} :
            k \in 1..Len(packets)}

\* the acknowledgment records of the output that name single message m of
\* channel c
SingleAckPlaces(c, m) ==
    {ka \in AckPlaces :
        LET ack == packets[ka[1]].message_acks[ka[2]]
        IN /\ ack.channel_id = c
           /\ ack.fragment_id = None
           /\ Some(ack.message_id) = m.id}

\* the acknowledgment records of the output that name fragment f of channel c
FragmentAckPlaces(c, f) ==
    {ka \in AckPlaces :
        LET ack == packets[ka[1]].message_acks[ka[2]]
        IN /\ ack.channel_id = c
           /\ ack.fragment_id = Some(f.fragment_id)
           /\ ack.message_id = f.message_id}

\* ---- C1
\* C1: when build_packets returns the packet list, every input single
\* message and every input fragment is in exactly one packet of the list,
\* exactly once.
C1_NoLossNoDuplicate ==
    result = "Ok" =>
        \A c \in DOMAIN data :
            /\ \A m \in Range(data[c][1]) :
                /\ Cardinality(PacketsWithSingle(c, m)) = 1
                /\ \A k \in PacketsWithSingle(c, m) :
                      Cardinality(SinglePlaces(packets[k].payload, c, m)) = 1
            /\ \A f \in Range(data[c][2]) :
                /\ Cardinality(PacketsWithFragment(c, f)) = 1
                /\ \A k \in PacketsWithFragment(c, f) :
                      Cardinality(FragmentPlaces(packets[k].payload, c, f)) = 1

\* ---- C2
\* C2: every packet pushed to the output list has a payload of at most
\* MTU_PAYLOAD_BYTES bytes.
C2_CapacityBound ==
    \A k \in 1..Len(packets) :
        PayloadLen(packets[k].payload) <= MTU_PAYLOAD_BYTES

\* a returned list with a fragment packet and a packet of single messages
\* that is filled beyond the size of a fragment
C2_Witness ==
    /\ result = "Ok"
    /\ \E k \in 1..Len(packets) : packets[k].payload[1].packet_type = "DataFragment"
    /\ \E k \in 1..Len(packets) :
        /\ packets[k].payload[1].packet_type = "Data"
        /\ Len(packets[k].payload) > 4
        /\ PayloadLen(packets[k].payload) > FRAGMENT_SIZE

\* ---- C3
\* C3: a build_packets call never aborts: its result is the packet list or
\* a serialization error.
C3_NeverAborts == result # "panic"

\* ---- C4
\* C4: when build_packets returns the packet list, every single message with
\* an id and every fragment has exactly one acknowledgment record in the
\* output, in the message_acks of the packet that holds it.
C4_AckCompleteness ==
    result = "Ok" =>
        \A c \in DOMAIN data :
            /\ \A m \in Range(data[c][1]) :
                is_some(m.id) =>
                    /\ Cardinality(SingleAckPlaces(c, m)) = 1
                    /\ \A ka \in SingleAckPlaces(c, m) :
                          ka[1] \in PacketsWithSingle(c, m)
            /\ \A f \in Range(data[c][2]) :
                /\ Cardinality(FragmentAckPlaces(c, f)) = 1
                /\ \A ka \in FragmentAckPlaces(c, f) :
                      ka[1] \in PacketsWithFragment(c, f)

\* ---- C5
HoldsNotLastFragment(p) ==
    \E i \in 1..Len(p.payload) :
        /\ p.payload[i].tag = "fragment"
        /\ ~is_last_fragment(p.payload[i].fragment)

\* header, channel id and one fragment, one acknowledgment record, nothing
\* reserved
OnlyItsFragment(p) ==
    /\ Len(p.payload) = 3
    /\ p.payload[1].tag = "header"
    /\ p.payload[2].tag = "channel_id"
    /\ p.payload[3].tag = "fragment"
    /\ Len(p.message_acks) = 1
    /\ p.prewritten_size = 0

\* C5: a packet that holds a fragment which is not the last of its message
\* holds only that fragment, in the output list and while the builder holds
\* it; the builder holds it only between its creation and the push that
\* closes it, never in a loop that adds single messages.
C5_FragmentIsolation ==
    /\ \A k \in 1..Len(packets) :
        HoldsNotLastFragment(packets[k]) => OnlyItsFragment(packets[k])
    /\ is_some(packet) => ~HoldsNotLastFragment(unwrap(packet))
    /\ (is_some(current_packet) /\ HoldsNotLastFragment(unwrap(current_packet)))
        => (pc = "frag_built" /\ OnlyItsFragment(unwrap(current_packet)))

\* a returned list in which a fragment that is not the last one has its
\* packet, next to other packets
C5_Witness ==
    /\ result = "Ok"
    /\ Len(packets) > 2
    /\ \E k \in 1..Len(packets) : HoldsNotLastFragment(packets[k])
    /\ \E k \in 1..Len(packets) :
        \E i \in 1..Len(packets[k].payload) : packets[k].payload[i].tag = "single"

\* ---- C6
\* the input has channels, none with a fragment, and the header with every
\* channel's id, count byte and messages is within the maximum payload size
C6_AllFit ==
    /\ DOMAIN data # {}
    /\ \A c \in DOMAIN data : data[c][2] = <<>>
    /\ HEADER_BYTES + SumBlocks(DOMAIN data) <= MTU_PAYLOAD_BYTES

\* C6: when the header, the channel headers and all single messages of all
\* channels fit in one packet and there are no fragments, one packet is
\* opened; between two channels it is open in the builder and nothing is
\* pushed; the call returns exactly that packet, which holds for every
\* channel exactly the channel's messages, and no acknowledgment record when
\* no message has an id.
C6_AllInOnePacket ==
    C6_AllFit =>
        /\ result \in {"running", "Ok"}
        /\ next_packet_id <= 1
        /\ (pc = "for" /\ todo # DOMAIN data) =>
                (is_some(current_packet) /\ packets = <<>>)
        /\ result = "Ok" =>
            /\ Len(packets) = 1
            /\ \A c \in DOMAIN data :
                LET block == BlockMessages(packets[1].payload, c, 1)
                IN /\ Len(block) = Len(data[c][1])
                   /\ Range(block) = Range(data[c][1])
            /\ (\A c \in DOMAIN data : \A m \in Range(data[c][1]) : is_none(m.id))
                => packets[1].message_acks = <<>>

\* the call has returned for an input of NumChannels channels with messages
\* that all fit
C6_Witness ==
    /\ result = "Ok"
    /\ C6_AllFit
    /\ DOMAIN data = ChannelIds
    /\ \A c \in DOMAIN data : data[c][1] # <<>>
    /\ \E c \in DOMAIN data : Len(data[c][1]) > 1

\* ---- C7
\* one channel, the fragments of one message, one small single message
C7_Scenario(c) ==
    /\ DOMAIN data = {c}
    /\ data[c][2] # <<>>
    /\ \A f \in Range(data[c][2]) : f.message_id = data[c][2][1].message_id
    /\ Len(data[c][1]) = 1
    /\ data[c][1][1].bytes_len = SmallBytes

\* C7: in that scenario a returned list has every fragment but the last
\* alone in its packet, and the last fragment's packet also holds
\* the small message when channel header and message fit behind the
\* fragment; otherwise the last fragment is alone and the message is in a
\* later packet.
C7_LastFragmentShared ==
    \A c \in DOMAIN data :
        (C7_Scenario(c) /\ result = "Ok") =>
                LET m == data[c][1][1]
                    last == data[c][2][Len(data[c][2])]
                    room == HEADER_BYTES + varint_len(c) + FragmentLen(last)
                                + varint_len(c) + 1 + SingleLen(m)
                                <= MTU_PAYLOAD_BYTES
                IN /\ \A f \in Range(data[c][2]) :
                        ~is_last_fragment(f) =>
                            /\ Cardinality(PacketsWithFragment(c, f)) = 1
                            /\ \A k \in PacketsWithFragment(c, f) :
                                  OnlyItsFragment(packets[k])
                   /\ Cardinality(PacketsWithFragment(c, last)) = 1
                   /\ Cardinality(PacketsWithSingle(c, m)) = 1
                   /\ \A k \in PacketsWithFragment(c, last) :
                        IF room
                        THEN k \in PacketsWithSingle(c, m)
                        ELSE /\ OnlyItsFragment(packets[k])
                             /\ \A j \in PacketsWithSingle(c, m) : j > k

\* ---- C8
\* one channel without fragments whose messages each fit in an empty packet
\* but not all together
C8_Scenario(c) ==
    /\ DOMAIN data = {c}
    /\ data[c][2] = <<>>
    /\ \A m \in Range(data[c][1]) :
        HEADER_BYTES + varint_len(c) + 1 + SingleLen(m) <= MTU_PAYLOAD_BYTES
    /\ HEADER_BYTES + varint_len(c) + 1 + SumSingleLen(data[c][1])
            > MTU_PAYLOAD_BYTES

\* C8: in that scenario the call returns at least two packets, each within
\* the capacity bound, and every message is in exactly one of them.
C8_SplitAcrossPackets ==
    \A c \in DOMAIN data :
        C8_Scenario(c) =>
            /\ result \in {"running", "Ok"}
            /\ result = "Ok" =>
                /\ Len(packets) >= 2
                /\ \A k \in 1..Len(packets) :
                    PayloadLen(packets[k].payload) <= MTU_PAYLOAD_BYTES
                /\ \A m \in Range(data[c][1]) :
                    Cardinality(PacketsWithSingle(c, m)) = 1

\* ---- C9
EmptyChannel(c) == data[c][1] = <<>> /\ data[c][2] = <<>>

\* C9: a channel with two empty queues has no block in any returned packet,
\* and an input of only such channels returns the empty list, without error.
C9_EmptyChannelNoPacket ==
    /\ (\A c \in DOMAIN data : EmptyChannel(c)) => result \in {"running", "Ok"}
    /\ result = "Ok" =>
        /\ (\A c \in DOMAIN data : EmptyChannel(c)) => packets = <<>>
        /\ \A c \in DOMAIN data :
            EmptyChannel(c) =>
                \A k \in 1..Len(packets) :
                    \A i \in 1..Len(packets[k].payload) :
                        ~(/\ packets[k].payload[i].tag = "channel_id"
                          /\ packets[k].payload[i].channel_id = c)

\* ---- C10
RECURSIVE CarriedIds(_, _)
\* the acknowledgment records the items of a payload that carry an id call
\* for, in payload order (from item i on)
CarriedIds(payload, i) ==
    IF i > Len(payload) THEN <<>>
    ELSE (CASE payload[i].tag = "fragment" ->
                <<[channel_id |-> ChannelAt(payload, i),
                   message_id |-> payload[i].fragment.message_id,
                   fragment_id |-> Some(payload[i].fragment.fragment_id)]>>
            [] payload[i].tag = "single" /\ is_some(payload[i].message.id) ->
                <<[channel_id |-> ChannelAt(payload, i),
                   message_id |-> unwrap(payload[i].message.id),
                   fragment_id |-> None]>>
            [] OTHER -> <<>>)
         \o CarriedIds(payload, i + 1)

\* C10: the message_acks of every packet, closed or open, are exactly the
\* records of the fragments and of the single messages with an id that its
\* payload holds: a single message without id adds none.
C10_AcksOnlyForIds ==
    \A p \in Range(packets) \cup OpenPackets :
        p.message_acks = CarriedIds(p.payload, 1)

\* a returned packet with two single messages, one without id, and one
\* acknowledgment record
C10_Witness ==
    /\ result = "Ok"
    /\ \E k \in 1..Len(packets) :
        /\ Len(packets[k].message_acks) = 1
        /\ \E i, j \in 1..Len(packets[k].payload) :
            /\ packets[k].payload[i].tag = "single"
            /\ packets[k].payload[j].tag = "single"
            /\ is_none(packets[k].payload[i].message.id)
            /\ is_some(packets[k].payload[j].message.id)

\* ---- C11: channel order

\* the channel ids written into a payload, in payload order
RECURSIVE ChannelIdsWritten(_, _)
ChannelIdsWritten(payload, i) ==
    IF i > Len(payload) THEN <<>>
    ELSE (IF payload[i].tag = "channel_id"
          THEN <<payload[i].channel_id>> ELSE <<>>)
         \o ChannelIdsWritten(payload, i + 1)

\* the packets in the order they are or will be pushed: the output, then the
\* packet still open
RECURSIVE PacketSeq(_)
PacketSeq(S) ==
    IF S = {} THEN <<>>
    ELSE LET p == CHOOSE x \in S : TRUE IN <<p>> \o PacketSeq(S \ {p})

AllPackets == packets \o PacketSeq(OpenPackets)

\* the channel ids of the channel blocks and fragment packets, read packet by
\* packet and then by position in the payload
RECURSIVE ChannelIdsOf(_)
ChannelIdsOf(ps) ==
    IF ps = <<>> THEN <<>>
    ELSE ChannelIdsWritten(Head(ps).payload, 1) \o ChannelIdsOf(Tail(ps))

NonDecreasing(q) == \A i, j \in 1..Len(q) : i < j => q[i] <= q[j]

\* C11: the channel taken from the map is smaller than every channel still
\* waiting, and the channel ids read across the packets (packet order, then
\* position in the payload) never decrease.
C11_ChannelOrder ==
    /\ todo # DOMAIN data => \A c \in todo : channel_id < c
    /\ NonDecreasing(ChannelIdsOf(AllPackets))

\* two packets were returned and the first and the last hold different
\* channels
C11_Witness ==
    /\ result = "Ok"
    /\ Len(packets) >= 2
    /\ \E i \in 1..Len(ChannelIdsOf(packets)) :
        ChannelIdsOf(packets)[i] # ChannelIdsOf(packets)[1]

\* ---- C12: order of the single messages of a channel

\* the single messages of channel c read across packets ps, packet by packet
\* and then by position in the payload
RECURSIVE WrittenSingles(_, _)
WrittenSingles(ps, c) ==
    IF ps = <<>> THEN <<>>
    ELSE BlockMessages(Head(ps).payload, c, 1) \o WrittenSingles(Tail(ps), c)

\* C12: in the returned list the single messages of one channel stand, across
\* packets and inside each block, in ascending order of their encoded length.
C12_AscendingEncodedLength ==
    result = "Ok" =>
        \A c \in DOMAIN data :
            LET w == WrittenSingles(packets, c)
            IN \A i, j \in 1..Len(w) :
                i < j => SingleLen(w[i]) <= SingleLen(w[j])

\* ---- C13: order against the enqueue order
\* (the field bytes of a single message holds its position in the queue)

\* C13: in the returned list, of two single messages of one channel the one
\* enqueued earlier stands earlier.
C13_EnqueueOrder ==
    result = "Ok" =>
        \A c \in DOMAIN data :
            LET w == WrittenSingles(packets, c)
            IN \A i, j \in 1..Len(w) : i < j => w[i].bytes < w[j].bytes

\* C13 as amended: of two single messages of one channel written to a packet,
\* the one with fewer payload bytes stands earlier, and of two with equally
\* many payload bytes the one enqueued earlier stands earlier.
C13_StableLengthOrder ==
    \A c \in DOMAIN data :
        LET w == WrittenSingles(AllPackets, c)
        IN \A i, j \in 1..Len(w) :
            i < j =>
                \/ w[i].bytes_len < w[j].bytes_len
                \/ /\ w[i].bytes_len = w[j].bytes_len
                   /\ w[i].bytes < w[j].bytes

\* returned: two messages of equal payload length in enqueue order, followed
\* by a longer message that was enqueued before both
C13_Witness ==
    /\ result = "Ok"
    /\ \E c \in DOMAIN data :
        LET w == WrittenSingles(packets, c)
        IN /\ Len(w) = 3
           /\ w[1].bytes_len = w[2].bytes_len
           /\ w[1].bytes < w[2].bytes
           /\ w[3].bytes < w[1].bytes

\* ---- C14: form of a channel block

\* the places of a payload where write_single_messages wrote a channel id
\* (place 2 of a fragment packet is written by build_new_fragment_packet)
BlockStarts(payload) ==
    {i \in 1..Len(payload) :
        /\ payload[i].tag = "channel_id"
        /\ ~(payload[1].packet_type = "DataFragment" /\ i = 2)}

\* at place i stands a channel id, then a count byte n >= 1, then exactly n
\* single messages
WellFormedBlock(payload, i) ==
    /\ i + 1 <= Len(payload)
    /\ payload[i + 1].tag = "num_messages"
    /\ LET n == payload[i + 1].num_messages
       IN /\ n >= 1
          /\ i + 1 + n <= Len(payload)
          /\ \A j \in (i + 2)..(i + 1 + n) : payload[j].tag = "single"
          /\ i + 2 + n <= Len(payload) => payload[i + 2 + n].tag # "single"

\* C14: in the returned list every channel id written by
\* write_single_messages is followed by a count byte and exactly that many
\* messages.
C14_BlockForm ==
    result = "Ok" =>
        \A k \in 1..Len(packets) :
            \A i \in BlockStarts(packets[k].payload) :
                WellFormedBlock(packets[k].payload, i)

\* ---- C15: a serialization fault

\* the queues the call has not taken out of the map
Unconsumed == [c \in todo |-> data[c]]

\* C15: when the call returns a serialization fault, no queue has been
\* consumed: every channel's queues are still as they were given.
C15_FaultLeavesQueues == result = "Err" => Unconsumed = data

\* ---- C16: the open packet's reservation

ClosedIds == {packets[k].packet_id : k \in 1..Len(packets)}

\* C17: at most one packet is open, and it is none of the pushed ones; a
\* pushed packet never changes again; a packet is created only while no
\* packet is open.
C17_OneOpenPacket ==
    /\ [](/\ ~(is_some(current_packet) /\ is_some(packet))
          /\ \A p \in OpenPackets : p.packet_id \notin ClosedIds)
    /\ [][/\ Len(packets') >= Len(packets)
          /\ \A k \in 1..Len(packets) : packets'[k] = packets[k]
          /\ next_packet_id' # next_packet_id => OpenPackets = {}]_vars

\* a packet was pushed and another one is open
C17_Witness ==
    /\ result = "running"
    /\ Len(packets) >= 1
    /\ OpenPackets # {}

\* ---- C18: one fresh packet per fragment

\* the fragments of channel c that stand first in a fragment packet of ps, in
\* packet order
RECURSIVE FragmentPacketsOf(_, _)
FragmentPacketsOf(ps, c) ==
    IF ps = <<>> THEN <<>>
    ELSE LET payload == Head(ps).payload
         IN (IF /\ payload[1].packet_type = "DataFragment"
                /\ Len(payload) >= 3
                /\ payload[2].tag = "channel_id"
                /\ payload[2].channel_id = c
                /\ payload[3].tag = "fragment"
             THEN <<payload[3].fragment>> ELSE <<>>)
            \o FragmentPacketsOf(Tail(ps), c)

\* a fragment stands nowhere but right after the header and the channel id
\* of a fragment packet
FragmentsFresh(ps) ==
    \A k \in 1..Len(ps) : \A i \in 1..Len(ps[k].payload) :
        ps[k].payload[i].tag = "fragment" =>
            /\ i = 3
            /\ ps[k].payload[1].packet_type = "DataFragment"
            /\ ps[k].payload[2].tag = "channel_id"

\* C18: in the returned list every fragment of every channel stands first in
\* a packet of its own, and these packets follow the channel's fragment queue.
C18_PacketPerFragment ==
    result = "Ok" =>
        /\ FragmentsFresh(packets)
        /\ \A c \in DOMAIN data : FragmentPacketsOf(packets, c) = data[c][2]

\* ---- C19: a carried packet that cannot take the next channel

\* the packet carried over from the previous channel cannot take the id and
\* the count byte of the channel now at hand
CarriedCannotFitChannel ==
    /\ pc = "drain"
    /\ is_some(current_packet)
    /\ ~can_fit_channel(unwrap(current_packet), channel_id)

\* C19: when the carried packet cannot take the next channel's header, the
\* next step pushes it, with its content, to the output and the call goes on
\* to pack the channel.
C19_CarriedPacketClosed ==
    [][CarriedCannotFitChannel =>
        /\ packets' = Append(packets, unwrap(current_packet))
        /\ result' = "running"]_vars

\* ---- C20: the early stop

\* a reserve loop stands at its first candidate that does not fit
StopsAtCandidate ==
    /\ pc \in {"drain_loop", "frag_loop", "singles_loop"}
    /\ message_end_idx # Len(single_messages)
    /\ ~can_fit(unwrap(packet), SingleLen(single_messages[message_end_idx + 1]))

\* C20: when a reserve loop stops at the first candidate that does not fit,
\* no later single message of the channel would fit in the packet either.
C20_EarlyStopSound ==
    StopsAtCandidate =>
        \A j \in (message_end_idx + 2)..Len(single_messages) :
            ~can_fit(unwrap(packet), SingleLen(single_messages[j]))

\* ---- C21: the accounting fault

\* C21: at every call of write_single_messages the bytes reserved cover the
\* channel id, the count byte and every message written, so no checked
\* subtraction fails and the call never returns SubstractionOverflow.
C21_NoSubstractionOverflow ==
    /\ result # "Err"
    /\ AtWrite =>
        write_single_messages(unwrap(packet), single_messages,
            message_start_idx, message_end_idx, channel_id).ok

\* a write of two messages into a packet carried over from another channel
\* released every reserved byte
C21_Witness ==
    /\ result = "running"
    /\ pc = "for"
    /\ is_some(current_packet)
    /\ unwrap(current_packet).prewritten_size = 0
    /\ Len(ChannelIdsWritten(unwrap(current_packet).payload, 1)) = 2
    /\ message_start_idx = 2

\* ---- C22: every opened packet is returned
\* (the call starts with packet id 0, so it issued the ids
\* 0 .. next_packet_id - 1)

\* C22: the returned packets carry, in this order, exactly the packet ids
\* issued during the call.
C22_EveryOpenedPacketReturned ==
    result = "Ok" =>
        /\ Len(packets) = next_packet_id
        /\ \A k \in 1..Len(packets) : packets[k].packet_id = k - 1

\* ---- C23: the builder after the call

\* C23: when build_packets has returned, with Ok or with Err, the builder's
\* current_packet slot is empty.
C23_SlotEmptyOnReturn ==
    result \in {"Ok", "Err"} => is_none(current_packet)

\* the call returned Err while a packet with content was open: it was held by
\* the local variable, not by the builder
C23_Witness ==
    /\ result = "Err"
    /\ is_some(packet)
    /\ PayloadLen(unwrap(packet).payload) > HEADER_BYTES

\* ---- C24: nothing reserved is left at the close

\* C24: every pushed packet has prewritten_size = 0: what was reserved for it
\* was written.
C24_NothingReservedAtClose ==
    \A k \in 1..Len(packets) : packets[k].prewritten_size = 0

\* a pushed packet that holds the blocks of two channels, with a message
C24_Witness ==
    \E k \in 1..Len(packets) :
        /\ Len(ChannelIdsWritten(packets[k].payload, 1)) = 2
        /\ \E i \in 1..Len(packets[k].payload) :
            packets[k].payload[i].tag = "single"

\* ---- C25: the unreachable!() of the remaining-singles loop

\* the packet taken at line 275: the open one after the can_fit_channel of
\* line 269 reserved the channel in it, or else a new one
TakenAfterEnsureOpen ==
    IF /\ is_some(current_packet)
       /\ can_fit_channel(unwrap(current_packet), channel_id)
    THEN reserve_channel(unwrap(current_packet), channel_id)
    ELSE new_single_packet(next_packet_id)

\* C25: whenever the remaining-singles loop is at its ensure-open step, the
\* packet it takes passes can_fit_channel for the channel at hand, so
\* unreachable!() is not reached.
C25_UnreachableNotReached ==
    pc = "singles" => can_fit_channel(TakenAfterEnsureOpen, channel_id)

\* the ensure-open step was passed with a new packet, after other packets
\* were pushed: the channel is reserved in it
C25_Witness ==
    /\ pc = "singles_loop"
    /\ result = "running"
    /\ Len(packets) >= 1
    /\ is_some(packet)
    /\ Len(unwrap(packet).payload) = 1
    /\ unwrap(packet).prewritten_size = varint_len(channel_id) + 1

\* ---- C26: the count byte

\* the number of single messages that follow place i of a payload directly
MessagesAfter(payload, i) ==
    Cardinality({j \in (i + 1)..Len(payload) :
                    \A k \in (i + 1)..j : payload[k].tag = "single"})

\* C26: every count byte of a packet, closed or open, is the number of
\* messages written after it.
C26_CountByteExact ==
    \A p \in Range(packets) \cup OpenPackets :
        \A i \in 1..Len(p.payload) :
            p.payload[i].tag = "num_messages" =>
                p.payload[i].num_messages = MessagesAfter(p.payload, i)

====
